---- MODULE Spec2Model ----
(***************************************************************************)
(* Model of plugin/clang/utils.py (class ClangUtils):                      *)
(*   - find_libclang_dir and its helpers (library discovery),              *)
(*   - cleanup_comment (doxygen comment normalisation),                    *)
(*   - build_info_details, link_from_location, location_from_type.         *)
(*                                                                         *)
(* Text is modelled by TLA+ strings where only concatenation and equality  *)
(* are needed (file names, spellings) and by tuples of one-character       *)
(* strings where the code slices or inspects characters (comment lines,    *)
(* the version string).  A path is a record [abs, comps]: whether it is    *)
(* rooted, and its components; the empty string is the path with no        *)
(* components that is not rooted.                                          *)
(***************************************************************************)
EXTENDS Integers, Sequences, FiniteSets, TLC

VARIABLES
    system,          \* platform.system() of the running process
    libclang_name,   \* ClangUtils.libclang_name (class attribute)
    fs_files,        \* files that currently exist on disk
    compiler,        \* what the compiler does for each command line
    last,            \* the last find_libclang_dir call: arguments and outcome
    raw_comment,     \* cleanup_comment: the argument
    line_idx,        \* cleanup_comment: index of the next line of the loop
    clean_lines,     \* cleanup_comment: clean_lines
    prev_line,       \* cleanup_comment: prev_line
    is_brief_comment,\* cleanup_comment: is_brief_comment
    comment_result,  \* cleanup_comment: the returned string (as its entries)
    info_args,       \* build_info_details: cursor and function_kinds_list
    info_pc,         \* build_info_details: position in the function body
    info_result      \* build_info_details: result, as the pieces appended

findVars == <<system, libclang_name, fs_files, compiler, last>>
commentVars == <<raw_comment, line_idx, clean_lines, prev_line,
                 is_brief_comment, comment_result>>
infoVars == <<info_args, info_pc, info_result>>
vars == <<system, libclang_name, fs_files, compiler, last, raw_comment,
          line_idx, clean_lines, prev_line, is_brief_comment, comment_result,
          info_args, info_pc, info_result>>

(***************************************************************************)
(* Generic helpers.                                                        *)
(***************************************************************************)
Front(s) == SubSeq(s, 1, Len(s) - 1)

Last(s) == s[Len(s)]

RECURSIVE Concat(_)
\* ''.join(seq) for a sequence of strings
Concat(seq) == IF seq = <<>> THEN "" ELSE Head(seq) \o Concat(Tail(seq))

\* Python None, where the code stores None or a string
NONE == "<None>"

(***************************************************************************)
(* Class attributes of ClangUtils.                                         *)
(***************************************************************************)
windows_suffixes == <<".dll", ".lib">>

linux_suffixes == <<".so", ".so.1">>

osx_suffixes == <<".dylib">>

Systems == {"Windows", "Linux", "Darwin"}

suffixes == [s \in Systems |->
                CASE s = "Windows" -> windows_suffixes
                  [] s = "Linux" -> linux_suffixes
                  [] s = "Darwin" -> osx_suffixes]

\* a name is kept as its pieces so that "$version" can be replaced
possible_filenames == [s \in Systems |->
                CASE s = "Windows" -> << <<"libclang">>, <<"clang">> >>
                  [] s = "Linux" -> << <<"libclang-", "$version">>, <<"libclang">> >>
                  [] s = "Darwin" -> << <<"libclang">> >>]

\* settings_storage.SettingsStorage.CLANG_VERSION, as its characters
CLANG_VERSION == <<"3", ".", "8", ".", "0">>

\* CLANG_VERSION[:-2]
version_str == Concat(SubSeq(CLANG_VERSION, 1, Len(CLANG_VERSION) - 2))

(***************************************************************************)
(* os.path on the modelled paths.                                          *)
(***************************************************************************)
EmptyPath == [abs |-> FALSE, comps |-> <<>>]

\* truth value of a path string: non-empty
Truthy(p) == p.abs \/ p.comps # <<>>

\* path.dirname
dirname(p) == IF p.comps = <<>> THEN p
              ELSE [abs |-> p.abs, comps |-> Front(p.comps)]

\* path.basename
basename(p) == IF p.comps = <<>> THEN "" ELSE Last(p.comps)

\* path.join(p, *names) for relative names
join(p, names) == [abs |-> p.abs, comps |-> p.comps \o names]

RECURSIVE NormComps(_, _, _)
NormComps(isAbs, done, rest) ==
    IF rest = <<>> THEN done
    ELSE LET c == Head(rest) IN
         IF c = "." THEN NormComps(isAbs, done, Tail(rest))
         ELSE IF c = ".." THEN
              IF done # <<>> /\ Last(done) # ".."
                 THEN NormComps(isAbs, Front(done), Tail(rest))
              ELSE IF isAbs THEN NormComps(isAbs, done, Tail(rest))
              ELSE NormComps(isAbs, Append(done, c), Tail(rest))
         ELSE NormComps(isAbs, Append(done, c), Tail(rest))

\* path.normpath: '' and every relative path that collapses become '.'
normpath(p) ==
    LET n == NormComps(p.abs, <<>>, p.comps) IN
    IF ~p.abs /\ n = <<>> THEN [abs |-> FALSE, comps |-> <<".">>]
    ELSE [abs |-> p.abs, comps |-> n]

(***************************************************************************)
(* The environment: the disk and the compiler.                             *)
(***************************************************************************)
\* working directory of the process
Cwd == <<"home">>

\* the directory the compiler's libraries live in
LibDir == <<"usr", "lib">>

\* the directory the compiler reports on Darwin for an empty file name
DarwinOut == <<"usr", "lib", "clang", "3.8">>

\* a directory that does not exist (a stale path printed by the compiler)
StaleDir == <<"opt", "stale">>

\* directories that exist
Dirs == {<<>>, Cwd, <<"usr">>, LibDir, <<"usr", "lib", "clang">>, DarwinOut,
         <<"opt">>, <<"opt", "llvm">>}

\* the result of resolving a path that names nothing
ENOENT == <<"?">>

RECURSIVE Walk(_, _, _)
\* resolution of a path component by component, as the OS does it; ENOENT
\* when a component is missing or a non-directory is traversed
Walk(files, cur, rest) ==
    IF cur = ENOENT THEN cur
    ELSE IF rest = <<>> THEN cur
    ELSE IF cur \notin Dirs THEN ENOENT
    ELSE LET c == Head(rest) IN
         IF c = "." THEN Walk(files, cur, Tail(rest))
         ELSE IF c = ".." THEN
              Walk(files, IF cur = <<>> THEN cur ELSE Front(cur), Tail(rest))
         ELSE LET nxt == Append(cur, c) IN
              IF nxt \in Dirs \/ nxt \in files
                 THEN Walk(files, nxt, Tail(rest))
                 ELSE ENOENT

Resolve(files, p) ==
    IF ~Truthy(p) THEN ENOENT
    ELSE Walk(files, IF p.abs THEN <<>> ELSE Cwd, p.comps)

\* path.exists
exists(files, p) == Resolve(files, p) # ENOENT

\* path.isdir
isdir(files, p) == Resolve(files, p) \in Dirs

(***************************************************************************)
(* find_libclang_dir.                                                      *)
(***************************************************************************)
\* values of the clang_binary argument
ClangBinaries == {"clang++"}

\* the (suffix, name) pairs in the order of the two nested loops
Candidates(sys) ==
    LET ss == suffixes[sys]
        ns == possible_filenames[sys]
    IN [k \in 1..(Len(ss) * Len(ns)) |->
           [suffix |-> ss[((k - 1) \div Len(ns)) + 1],
            name |-> ns[((k - 1) % Len(ns)) + 1]]]

\* file.replace("$version", version_str), on the pieces of the file name
ReplaceVersion(pieces) ==
    [k \in 1..Len(pieces) |->
        IF pieces[k] = "$version" THEN version_str ELSE pieces[k]]

\* "{name}{suffix}".format(...), with "$version" replaced on Linux only
FileOf(sys, cand) ==
    LET pieces == Append(cand.name, cand.suffix) IN
    IF sys = "Linux" THEN Concat(ReplaceVersion(pieces)) ELSE Concat(pieces)

\* get_library_path_cmd: the file name is passed on Linux only
CommandOf(sys, clang_binary, file) ==
    CASE sys = "Darwin" ->
           [binary |-> clang_binary, flag |-> "-print-file-name=", arg |-> ""]
      [] sys = "Windows" ->
           [binary |-> clang_binary, flag |-> "-print-prog-name=", arg |-> ""]
      [] sys = "Linux" ->
           [binary |-> clang_binary, flag |-> "-print-file-name=", arg |-> file]

\* the file names the loops build on a platform
CandidateFiles(sys) ==
    {FileOf(sys, Candidates(sys)[k]) : k \in 1..Len(Candidates(sys))}

\* the command lines the loops build on a platform
Commands(sys) ==
    {CommandOf(sys, b, f) : b \in ClangBinaries, f \in CandidateFiles(sys)}

\* what a compiler run can do: exit non-zero or not start ("fail"), print
\* nothing ("empty"), print the library location ("found"), print the file
\* name it was given back ("echo", clang's answer for a file it does not
\* know), or print a location that is not on disk ("stale")
Kinds(sys) == IF sys = "Linux" THEN {"fail", "empty", "found", "echo"}
              ELSE {"fail", "empty", "found", "stale"}

\* subprocess.check_output(...).decode('utf8').strip(): ok is FALSE when
\* check_output raises (CalledProcessError, FileNotFoundError)
check_output(sys, comp, cmd) ==
    LET kind == comp[cmd] IN
    CASE kind = "fail" -> [ok |-> FALSE, out |-> EmptyPath]
      [] kind = "empty" -> [ok |-> TRUE, out |-> EmptyPath]
      [] kind = "echo" -> [ok |-> TRUE,
                           out |-> [abs |-> FALSE, comps |-> <<cmd.arg>>]]
      [] kind = "stale" -> [ok |-> TRUE,
                            out |-> [abs |-> TRUE, comps |-> StaleDir]]
      [] kind = "found" ->
           [ok |-> TRUE,
            out |-> CASE sys = "Linux" ->
                           [abs |-> TRUE, comps |-> Append(LibDir, cmd.arg)]
                      [] sys = "Windows" -> [abs |-> TRUE, comps |-> LibDir]
                      [] sys = "Darwin" -> [abs |-> TRUE, comps |-> DarwinOut]]

\* ClangUtils.dir_from_output
dir_from_output(sys, output) ==
    CASE sys = "Darwin" -> join(output, <<"..", "..">>)
      [] sys = "Windows" -> normpath(output)
      [] sys = "Linux" -> normpath(dirname(output))

\* ClangUtils.try_load_from_user_hint: the folder, or None
try_load_from_user_hint(files, libclang_path) ==
    IF exists(files, libclang_path)
       THEN [isNone |-> FALSE, val |-> dirname(libclang_path)]
       ELSE [isNone |-> TRUE, val |-> EmptyPath]

\* VerifyOutput without the look at the file on disk
VerifyOutputNoFileCheck(sys, files, output, file) ==
    /\ Truthy(output)
    /\ isdir(files, dir_from_output(sys, output))

\* the check of one candidate after the compiler has answered
VerifyOutput(sys, files, output, file) ==
    /\ Truthy(output)
    /\ isdir(files, dir_from_output(sys, output))
    /\ exists(files, join(dir_from_output(sys, output), <<file>>))

RECURSIVE SearchLoop(_, _, _, _, _, _, _)
\* the two nested loops of find_libclang_dir from candidate k on; queried
\* is the list of commands run so far, name the value of libclang_name
SearchLoop(sys, files, comp, clang_binary, k, queried, name) ==
    IF k > Len(Candidates(sys))
       THEN [kind |-> "None", dir |-> EmptyPath, queried |-> queried,
             name |-> name]
    ELSE LET file == FileOf(sys, Candidates(sys)[k])
             cmd == CommandOf(sys, clang_binary, file)
             run == check_output(sys, comp, cmd)
             q == Append(queried, [k |-> k, cmd |-> cmd])
         IN IF ~run.ok
               THEN [kind |-> "Raised", dir |-> EmptyPath, queried |-> q,
                     name |-> name]
            ELSE IF VerifyOutput(sys, files, run.out, file)
               THEN [kind |-> "Found", dir |-> dir_from_output(sys, run.out),
                     queried |-> q, name |-> file]
            ELSE SearchLoop(sys, files, comp, clang_binary, k + 1, q, name)

\* find_libclang_dir storing the hint's basename before the hint is checked
find_libclang_dir_eager(sys, files, comp, clang_binary, libclang_path, name) ==
    LET libclang_dir == try_load_from_user_hint(files, libclang_path)
        eager == IF Truthy(libclang_path) THEN basename(libclang_path)
                 ELSE name
    IN IF Truthy(libclang_path) /\ ~libclang_dir.isNone
             /\ Truthy(libclang_dir.val)
          THEN [kind |-> "Found", dir |-> libclang_dir.val, queried |-> <<>>,
                name |-> eager]
          ELSE SearchLoop(sys, files, comp, clang_binary, 1, <<>>, eager)

\* find_libclang_dir trusting the hint only while nothing is cached
find_libclang_dir_cached(sys, files, comp, clang_binary, libclang_path, name) ==
    LET libclang_dir == try_load_from_user_hint(files, libclang_path) IN
    IF name = NONE /\ Truthy(libclang_path) /\ ~libclang_dir.isNone
          /\ Truthy(libclang_dir.val)
       THEN [kind |-> "Found", dir |-> libclang_dir.val, queried |-> <<>>,
             name |-> basename(libclang_path)]
       ELSE SearchLoop(sys, files, comp, clang_binary, 1, <<>>, name)

\* ClangUtils.find_libclang_dir: the outcome and the new libclang_name
find_libclang_dir(sys, files, comp, clang_binary, libclang_path, name) ==
    LET libclang_dir == try_load_from_user_hint(files, libclang_path) IN
    IF Truthy(libclang_path) /\ ~libclang_dir.isNone /\ Truthy(libclang_dir.val)
       THEN [kind |-> "Found", dir |-> libclang_dir.val, queried |-> <<>>,
             name |-> basename(libclang_path)]
       ELSE SearchLoop(sys, files, comp, clang_binary, 1, <<>>, name)

\* a user hint with a directory part that names a file on disk
HintAbs == [abs |-> TRUE, comps |-> <<"opt", "llvm", "libclang.so.3.8">>]

\* a user hint that is a bare file name, looked up in the working directory
\* (it names a file only while that file is on disk)
HintBare(sys) == [abs |-> FALSE, comps |-> <<"libclang" \o suffixes[sys][1]>>]

\* values of the libclang_path argument
Hints(sys) == {EmptyPath, HintAbs, HintBare(sys)}

\* the files that stay on disk
FixedFiles == {HintAbs.comps}

\* the files that may or may not be on disk
FileUniverse(sys) ==
    {Append(LibDir, f) : f \in CandidateFiles(sys)}
        \cup {Cwd \o HintBare(sys).comps}

\* the files on disk
Disk == fs_files \cup FixedFiles

\* no call since the process started or the environment changed
NoCall == [called |-> FALSE]

FindInit ==
    /\ system \in Systems
    /\ libclang_name = NONE
    /\ fs_files \in SUBSET FileUniverse(system)
    /\ compiler \in [Commands(system) -> Kinds(system)]
    /\ last = NoCall
    /\ raw_comment = <<>> /\ line_idx = 0 /\ clean_lines = <<>>
    /\ prev_line = <<>> /\ is_brief_comment = FALSE /\ comment_result = <<>>
    /\ info_args = <<>> /\ info_pc = "idle" /\ info_result = <<>>

\* a call of find_libclang_dir
FindLibclangDir ==
    \E clang_binary \in ClangBinaries, libclang_path \in Hints(system) :
        LET r == find_libclang_dir(system, Disk, compiler, clang_binary,
                                   libclang_path, libclang_name)
        IN /\ libclang_name' = r.name
           /\ last' = [called |-> TRUE, clang_binary |-> clang_binary,
                       libclang_path |-> libclang_path, kind |-> r.kind,
                       dir |-> r.dir, queried |-> r.queried,
                       again |-> /\ last.called
                                 /\ last.clang_binary = clang_binary
                                 /\ last.libclang_path = libclang_path]
           /\ UNCHANGED <<system, fs_files, compiler>>

\* the environment: a file appears on disk or disappears
FileChange ==
    \E f \in FileUniverse(system) :
        /\ fs_files' = IF f \in fs_files THEN fs_files \ {f}
                       ELSE fs_files \cup {f}
        /\ last' = NoCall
        /\ UNCHANGED <<system, libclang_name, compiler>>

\* the environment: the compiler starts to answer a command differently
CompilerChange ==
    \E cmd \in Commands(system), kind \in Kinds(system) :
        /\ compiler[cmd] # kind
        /\ compiler' = [compiler EXCEPT ![cmd] = kind]
        /\ last' = NoCall
        /\ UNCHANGED <<system, libclang_name, fs_files>>

FindNext ==
    \/ FindLibclangDir /\ UNCHANGED <<commentVars, infoVars>>
    \/ FileChange /\ UNCHANGED <<commentVars, infoVars>>
    \/ CompilerChange /\ UNCHANGED <<commentVars, infoVars>>

(***************************************************************************)
(* Properties of find_libclang_dir.  While last.called holds, the disk and *)
(* the compiler are those the call saw: every change resets last.          *)
(***************************************************************************)
\* the file name of the k-th candidate of the running platform
FileAt(k) == FileOf(system, Candidates(system)[k])

\* the command line of the k-th candidate of the last call
CommandAt(k) == CommandOf(system, last.clang_binary, FileAt(k))

NumCandidates == Len(Candidates(system))

\* the compiler fails on the k-th candidate of the last call
FailsAt(k) == ~check_output(system, compiler, CommandAt(k)).ok

\* the k-th candidate verifies: the compiler prints something, the derived
\* directory is a directory and holds the file
VerifiesAt(k) ==
    LET run == check_output(system, compiler, CommandAt(k))
        dir == dir_from_output(system, run.out)
    IN /\ run.ok
       /\ Truthy(run.out)
       /\ isdir(Disk, dir)
       /\ exists(Disk, join(dir, <<FileAt(k)>>))

\* the user hint of the last call names something on disk
HintExists == Truthy(last.libclang_path) /\ exists(Disk, last.libclang_path)

\* the last call ran the commands of candidates 1..k, in this order
QueriedUpTo(k) ==
    last.queried = [j \in 1..k |-> [k |-> j, cmd |-> CommandAt(j)]]

\* the candidate order the specification lists, version 3.8
ListedOrder ==
    CASE system = "Windows" ->
           <<"libclang.dll", "clang.dll", "libclang.lib", "clang.lib">>
      [] system = "Linux" ->
           <<"libclang-3.8.so", "libclang.so", "libclang-3.8.so.1",
             "libclang.so.1">>
      [] system = "Darwin" -> <<"libclang.dylib">>

\* C1: a call returns a directory only if a file was seen on disk: the user
\* hint exists, or the returned directory is a directory that holds the
\* candidate file whose name was cached.
C1_FoundOnlyIfVerified ==
    (last.called /\ last.kind = "Found") =>
        \/ HintExists
        \/ \E f \in CandidateFiles(system) :
              /\ libclang_name = f
              /\ isdir(Disk, last.dir)
              /\ exists(Disk, join(last.dir, <<f>>))

\* C1 witness: a call found a candidate through the compiler
C1_Witness ==
    /\ last.called
    /\ last.kind = "Found"
    /\ last.queried # <<>>
    /\ ~HintExists

C3_UserHintFastPath ==
    (last.called /\ HintExists) =>
        /\ last.kind = "Found"
        /\ last.dir = dirname(last.libclang_path)
        /\ libclang_name = basename(last.libclang_path)
        /\ last.queried = <<>>

\* C4: when the hint names nothing and exactly one candidate verifies, the
\* candidates before it are queried in the listed order, the call succeeds
\* at it, and nothing after it is queried.
C4_OrderedSearch ==
    \A k \in 1..NumCandidates :
        ( /\ last.called
          /\ ~HintExists
          /\ VerifiesAt(k)
          /\ \A j \in 1..NumCandidates : j # k => ~VerifiesAt(j) )
        => /\ last.kind = "Found"
           /\ QueriedUpTo(k)
           /\ \A j \in 1..k : FileAt(j) = ListedOrder[j]
           /\ libclang_name = FileAt(k)

\* C4 where no compiler run before the verifying candidate fails
C4_OrderedSearchNoFailure ==
    \A k \in 1..NumCandidates :
        ( /\ last.called
          /\ ~HintExists
          /\ VerifiesAt(k)
          /\ \A j \in 1..NumCandidates : j # k => ~VerifiesAt(j)
          /\ \A j \in 1..k : ~FailsAt(j) )
        => /\ last.kind = "Found"
           /\ QueriedUpTo(k)
           /\ \A j \in 1..k : FileAt(j) = ListedOrder[j]
           /\ libclang_name = FileAt(k)

\* C5: a failing compiler run is not propagated: the call ends with a
\* directory or with None, and a candidate that verifies after the failing
\* one is found.
C5_FailureSwallowed ==
    last.called =>
        /\ last.kind # "Raised"
        /\ (~HintExists /\ \E k \in 1..NumCandidates : VerifiesAt(k))
              => last.kind = "Found"

\* the call made by the step names nothing with its hint, and no candidate
\* verifies in the environment the step leaves unchanged
NothingToFind ==
    /\ last'.called
    /\ ~(Truthy(last'.libclang_path) /\ exists(Disk, last'.libclang_path))
    /\ \A k \in 1..NumCandidates :
          LET file == FileAt(k)
              run == check_output(system, compiler,
                                  CommandOf(system, last'.clang_binary, file))
              dir == dir_from_output(system, run.out)
          IN ~( /\ run.ok
                /\ Truthy(run.out)
                /\ isdir(Disk, dir)
                /\ exists(Disk, join(dir, <<file>>)) )

\* the call made by the step tried every candidate once, returned None and
\* left libclang_name alone
ExhaustedQuietly ==
    /\ last'.kind = "None"
    /\ last'.queried =
          [j \in 1..NumCandidates |->
              [k |-> j,
               cmd |-> CommandOf(system, last'.clang_binary, FileAt(j))]]
    /\ libclang_name' = libclang_name

\* C6: when the hint names nothing and no candidate verifies, the call tries
\* every candidate once, returns None and leaves libclang_name alone.
C6_Exhaustion == [][NothingToFind => ExhaustedQuietly]_vars

\* C6 where no compiler run fails
C6_ExhaustionNoFailure ==
    [][( /\ NothingToFind
         /\ \A k \in 1..NumCandidates :
               check_output(system, compiler,
                            CommandOf(system, last'.clang_binary, FileAt(k))).ok )
       => ExhaustedQuietly]_vars

\* C7: a call repeated with the same arguments in an unchanged environment
\* ends the same way, with the same directory, and leaves libclang_name as
\* the first call left it.
C7_Idempotent ==
    [][( /\ last.called
         /\ last'.called
         /\ last'.clang_binary = last.clang_binary
         /\ last'.libclang_path = last.libclang_path )
       => /\ last'.kind = last.kind
          /\ last'.dir = last.dir
          /\ libclang_name' = libclang_name]_vars

\* C7 witness: a call repeated in the same environment found the library
\* through the compiler
C7_Witness ==
    /\ last.called
    /\ last.again
    /\ last.kind = "Found"
    /\ last.queried # <<>>
    /\ VerifiesAt(Len(last.queried))

(***************************************************************************)
(* cleanup_comment.  Strings are tuples of characters.                     *)
(***************************************************************************)
\* characters str.strip() removes
Whitespace == {" ", "\n"}

RECURSIVE LStrip(_)
LStrip(s) == IF s # <<>> /\ Head(s) \in Whitespace THEN LStrip(Tail(s)) ELSE s

RECURSIVE RStrip(_)
RStrip(s) == IF s # <<>> /\ Last(s) \in Whitespace THEN RStrip(Front(s)) ELSE s

\* str.strip()
Strip(s) == RStrip(LStrip(s))

\* s[n:]
SliceFrom(s, n) == IF n >= Len(s) THEN <<>> ELSE SubSeq(s, n + 1, Len(s))

\* str.startswith
StartsWith(s, prefix) ==
    Len(s) >= Len(prefix) /\ SubSeq(s, 1, Len(prefix)) = prefix

RECURSIVE SplitLines(_, _)
\* str.split('\n'): cur is the line being read
SplitLines(s, cur) ==
    IF s = <<>> THEN <<cur>>
    ELSE IF Head(s) = "\n" THEN <<cur>> \o SplitLines(Tail(s), <<>>)
    ELSE SplitLines(Tail(s), Append(cur, Head(s)))

RECURSIVE JoinWith(_, _)
\* sep.join(seq)
JoinWith(sep, seq) ==
    IF seq = <<>> THEN <<>>
    ELSE IF Len(seq) = 1 THEN seq[1]
    ELSE seq[1] \o sep \o JoinWith(sep, Tail(seq))

AtBrief == <<"@", "b", "r", "i", "e", "f">>

SlashBrief == <<"/", "b", "r", "i", "e", "f">>

Br == <<"<", "b", "r", ">">>

\* lines 270-274: the value the marker branches give to clean, which line 275
\* overwrites
MarkerClean(line) ==
    LET clean == Strip(line) IN
    IF StartsWith(clean, <<"/">>) THEN SliceFrom(clean, 3)
    ELSE IF StartsWith(clean, <<"*">>) THEN SliceFrom(clean, 2)
    ELSE clean

\* lines 270-275: the value of clean the rest of the loop body sees
CleanLine(line) == Strip(SliceFrom(line, 3))

\* CommentStep that never leaves brief mode
CommentStepBriefForever(st, line) ==
    LET clean == CleanLine(line) IN
    IF StartsWith(clean, AtBrief) \/ StartsWith(clean, SlashBrief)
       THEN [clean_lines |-> st.clean_lines, prev_line |-> clean,
             is_brief_comment |-> TRUE]
    ELSE IF clean = <<>> \/ st.is_brief_comment
       THEN [clean_lines |-> st.clean_lines, prev_line |-> clean,
             is_brief_comment |-> st.is_brief_comment]
    ELSE [clean_lines |-> Append(st.clean_lines, clean), prev_line |-> clean,
          is_brief_comment |-> st.is_brief_comment]

\* one pass of the loop body over a line; st holds clean_lines, prev_line
\* and is_brief_comment
CommentStep(st, line) ==
    LET clean == CleanLine(line)
        prev == clean
    IN IF StartsWith(clean, AtBrief) \/ StartsWith(clean, SlashBrief)
          THEN [clean_lines |-> st.clean_lines, prev_line |-> prev,
                is_brief_comment |-> TRUE]
       ELSE LET brief == IF clean = <<>> THEN FALSE ELSE st.is_brief_comment
            IN IF clean = <<>> /\ prev = <<>>
                  THEN [clean_lines |-> st.clean_lines, prev_line |-> prev,
                        is_brief_comment |-> brief]
               ELSE IF brief
                  THEN [clean_lines |-> st.clean_lines, prev_line |-> prev,
                        is_brief_comment |-> brief]
               ELSE [clean_lines |-> Append(st.clean_lines, clean),
                     prev_line |-> prev, is_brief_comment |-> brief]

RECURSIVE CommentLoop(_, _, _)
CommentLoop(st, lines, i) ==
    IF i > Len(lines) THEN st
    ELSE CommentLoop(CommentStep(st, lines[i]), lines, i + 1)

\* ClangUtils.cleanup_comment
cleanup_comment(raw) ==
    JoinWith(Br, CommentLoop([clean_lines |-> <<>>, prev_line |-> <<>>,
                              is_brief_comment |-> FALSE],
                             SplitLines(raw, <<>>), 1).clean_lines)

\* the lines raw comments are made of
LineBlank == <<>>

LineBrief ==
    <<"/", "*", "*", " ", "@", "b", "r", "i", "e", "f", " ", "D", "o", "e",
      "s", " ", "X", ".">>

LineText ==
    <<" ", "F", "u", "l", "l", " ", "t", "e", "x", "t", " ", "h", "e", "r",
      "e", ".">>

LineMore ==
    <<" ", "M", "o", "r", "e", " ", "t", "e", "x", "t", ".">>

LineEnd == <<"*", "/">>

LineSlashBrief ==
    <<"/", "/", "/", " ", "/", "b", "r", "i", "e", "f", " ", "Y">>

LineSet == {LineBlank, LineBrief, LineText, LineMore, LineEnd, LineSlashBrief}

\* the longest raw comment made of arbitrary lines
MaxLines == 4

\* the raw comment "/** @brief Does X.\n\n Full text here.\n\n More text.\n*/"
ExampleComment ==
    JoinWith(<<"\n">>, <<LineBrief, LineBlank, LineText, LineBlank, LineMore,
                        LineEnd>>)

RawComments ==
    {JoinWith(<<"\n">>, ls) :
        ls \in UNION {[1..n -> LineSet] : n \in 1..MaxLines}}
    \cup {ExampleComment}

\* the lines of the comment being cleaned
Lines == SplitLines(raw_comment, <<>>)

CommentInit ==
    /\ raw_comment \in RawComments
    /\ line_idx = 1
    /\ clean_lines = <<>>
    /\ prev_line = <<>>
    /\ is_brief_comment = FALSE
    /\ comment_result = <<>>
    /\ system = "Linux" /\ libclang_name = NONE /\ fs_files = {}
    /\ compiler = <<>> /\ last = NoCall
    /\ info_args = <<>> /\ info_pc = "idle" /\ info_result = <<>>

\* one iteration of the loop of cleanup_comment
CommentLine ==
    /\ line_idx <= Len(Lines)
    /\ LET st == CommentStep([clean_lines |-> clean_lines,
                              prev_line |-> prev_line,
                              is_brief_comment |-> is_brief_comment],
                             Lines[line_idx])
       IN /\ clean_lines' = st.clean_lines
          /\ prev_line' = st.prev_line
          /\ is_brief_comment' = st.is_brief_comment
    /\ line_idx' = line_idx + 1
    /\ UNCHANGED <<raw_comment, comment_result>>

\* the return statement of cleanup_comment
CommentReturn ==
    /\ line_idx = Len(Lines) + 1
    /\ comment_result' = JoinWith(Br, clean_lines)
    /\ line_idx' = line_idx + 1
    /\ UNCHANGED <<raw_comment, clean_lines, prev_line, is_brief_comment>>

\* cleanup_comment has returned
CommentDone == line_idx = Len(Lines) + 2

CommentNext ==
    \/ CommentLine /\ UNCHANGED <<findVars, infoVars>>
    \/ CommentReturn /\ UNCHANGED <<findVars, infoVars>>

(***************************************************************************)
(* Properties of cleanup_comment.                                          *)
(***************************************************************************)
\* the cleaned text of line i of the comment
Cleaned(i) == CleanLine(Lines[i])

IsBlank(i) == Cleaned(i) = <<>>

IsBriefStart(i) ==
    StartsWith(Cleaned(i), AtBrief) \/ StartsWith(Cleaned(i), SlashBrief)

\* line i is in a brief section: a brief line at or before it, and no blank
\* line from there to i
InBrief(i) ==
    \E j \in 1..i : IsBriefStart(j) /\ \A m \in j..i : ~IsBlank(m)

\* line i is a non-blank line outside every brief section
Kept(i) == ~IsBlank(i) /\ ~InBrief(i)

RECURSIVE KeptFrom(_)
\* the cleaned texts of the kept lines from line i on, in order
KeptFrom(i) ==
    IF i > Len(Lines) THEN <<>>
    ELSE IF Kept(i) THEN <<Cleaned(i)>> \o KeptFrom(i + 1)
    ELSE KeptFrom(i + 1)

RECURSIVE SeparatedFrom(_, _, _)
\* the kept lines from line i on, with one empty entry between two of them
\* that have a blank line between them
SeparatedFrom(i, seenKept, blankSince) ==
    IF i > Len(Lines) THEN <<>>
    ELSE IF Kept(i)
       THEN (IF seenKept /\ blankSince THEN << <<>> >> ELSE <<>>)
               \o <<Cleaned(i)>> \o SeparatedFrom(i + 1, TRUE, FALSE)
    ELSE SeparatedFrom(i + 1, seenKept, blankSince \/ IsBlank(i))

RECURSIVE TrimEmpty(_)
\* seq without its leading and trailing empty entries
TrimEmpty(seq) ==
    IF seq = <<>> THEN seq
    ELSE IF Head(seq) = <<>> THEN TrimEmpty(Tail(seq))
    ELSE IF Last(seq) = <<>> THEN TrimEmpty(Front(seq))
    ELSE seq

NonEmptyEntry(e) == e # <<>>

\* the output the specification gives for ExampleComment
ExampleOutput ==
    <<" ", "F", "u", "l", "l", " ", "t", "e", "x", "t", " ", "h", "e", "r",
      "e", ".", "<", "b", "r", ">", "<", "b", "r", ">", " ", "M", "o", "r",
      "e", " ", "t", "e", "x", "t", ".">>

\* C8: blank lines collapse to one separator: between two emitted non-blank
\* lines with blank lines between them the output has exactly one empty
\* entry, it never has two adjacent empty entries, and the example comment
\* gives " Full text here.<br><br> More text.".
C8_BlankLinesCollapse ==
    CommentDone =>
        /\ TrimEmpty(clean_lines) = SeparatedFrom(1, FALSE, FALSE)
        /\ \A i \in 1..(Len(clean_lines) - 1) :
              ~(clean_lines[i] = <<>> /\ clean_lines[i + 1] = <<>>)
        /\ raw_comment = ExampleComment => comment_result = ExampleOutput

\* C9: the non-empty entries of the output are the non-blank lines outside
\* the brief sections, in their order: a brief line and the lines after it
\* up to the next blank line are absent, and lines after that blank line are
\* emitted again.
C9_BriefSectionExcluded ==
    CommentDone =>
        /\ SelectSeq(clean_lines, NonEmptyEntry) = KeptFrom(1)
        /\ comment_result = JoinWith(Br, clean_lines)

\* C9 witness: a comment with a brief line, a further line of the brief
\* section, the blank line that ends it, and an emitted line after it
C9_Witness ==
    /\ CommentDone
    /\ clean_lines # <<>>
    /\ \E i, j, k, l \in 1..Len(Lines) :
          /\ i < j /\ j < k /\ k < l
          /\ IsBriefStart(i)
          /\ ~IsBriefStart(j) /\ InBrief(j)
          /\ IsBlank(k)
          /\ Kept(l)

SpecComment == CommentInit /\ [][CommentNext]_vars

(***************************************************************************)
(* build_info_details, link_from_location, location_from_type.  A spelling *)
(* is the sequence of its pieces, each character html.escape changes being *)
(* a piece of its own; the result is the sequence of the strings appended  *)
(* to it.                                                                  *)
(***************************************************************************)
\* html.escape of one piece (quote=True)
EscapePiece(c) ==
    CASE c = "&" -> "&amp;"
      [] c = "<" -> "&lt;"
      [] c = ">" -> "&gt;"
      [] c = "\"" -> "&quot;"
      [] c = "'" -> "&#x27;"
      [] OTHER -> c

\* html.escape
escape(pieces) == Concat([k \in 1..Len(pieces) |-> EscapePiece(pieces[k])])

\* a location: present is FALSE for None, has_file is FALSE for file None
NoLoc == [present |-> FALSE, has_file |-> FALSE, name |-> "", line |-> 0,
          column |-> 0]

LocNoFile == [present |-> TRUE, has_file |-> FALSE, name |-> "", line |-> 7,
              column |-> 1]

LocUnnamed == [present |-> TRUE, has_file |-> TRUE, name |-> "", line |-> 3,
               column |-> 2]

LocFoo == [present |-> TRUE, has_file |-> TRUE, name |-> "/a/b.h",
           line |-> 10, column |-> 4]

LocUse == [present |-> TRUE, has_file |-> TRUE, name |-> "/a/c.cpp",
           line |-> 42, column |-> 9]

\* ClangUtils.location_from_type: the type's declaration, else its pointee's
location_from_type(clangType) ==
    IF clangType.decl.present /\ clangType.decl.has_file THEN clangType.decl
    ELSE IF clangType.pointee_decl.present /\ clangType.pointee_decl.has_file
       THEN clangType.pointee_decl
    ELSE NoLoc

\* ClangUtils.link_from_location
link_from_location(location, text) ==
    IF location.present /\ location.has_file /\ location.name # ""
       THEN "<a href=\"" \o location.name \o ":" \o ToString(location.line)
               \o ":" \o ToString(location.column) \o "\">" \o text \o "</a>"
       ELSE text

\* lines 210-216: the type to describe; none is TRUE where the code returns ""
ChooseType(cursor) ==
    IF cursor.result_type.spelling # <<>>
       THEN [none |-> FALSE, type |-> cursor.result_type]
    ELSE IF cursor.type.spelling # <<>>
       THEN [none |-> FALSE, type |-> cursor.type]
    ELSE [none |-> TRUE, type |-> cursor.type]

\* TypeSegment comparing the spelling with that of the described type
TypeSegmentDescribed(cursor, cursor_type) ==
    IF Concat(cursor.spelling) # Concat(cursor_type.spelling)
       THEN <<link_from_location(location_from_type(cursor_type),
                                 escape(cursor_type.spelling)), " ">>
       ELSE <<>>

\* lines 218-223: the link to the type and the space after it
TypeSegment(cursor, cursor_type) ==
    IF Concat(cursor.spelling) # Concat(cursor.type.spelling)
       THEN <<link_from_location(location_from_type(cursor_type),
                                 escape(cursor_type.spelling)), " ">>
       ELSE <<>>

\* lines 225-230: the cursor's own name
NameSegment(cursor) ==
    IF cursor.location.present
       THEN <<link_from_location(cursor.location, escape(cursor.spelling))>>
       ELSE <<escape(cursor.spelling)>>

\* lines 232-237: args, each as the pieces of its text
ArgTexts(cursor) ==
    [k \in 1..Len(cursor.arguments) |->
        LET arg == cursor.arguments[k] IN
        IF arg.spelling # <<>>
           THEN arg.type_spelling \o <<" ">> \o arg.spelling
           ELSE Append(arg.type_spelling, " ")]

\* lines 239-243: the parenthesized argument list of a function kind
ArgList(cursor, function_kinds_list) ==
    LET args == ArgTexts(cursor) IN
    IF cursor.kind \in function_kinds_list
       THEN <<"(">>
            \o (IF Len(args) # 0 THEN <<escape(JoinWith(<<", ">>, args))>>
                ELSE <<>>)
            \o <<")">>
       ELSE <<>>

\* lines 250-252
BriefSection(cursor) ==
    IF cursor.brief_comment # ""
       THEN <<"<br><br><b>Brief documentation:</b><br>",
              "<div>" \o cursor.brief_comment \o "</div>">>
       ELSE <<>>

\* lines 254-258
RawSection(cursor) ==
    IF cursor.raw_comment # <<>>
       THEN LET html_raw_comment == cleanup_comment(cursor.raw_comment) IN
            IF Len(html_raw_comment) > 0
               THEN <<"<br><b>Full Doxygen comment:</b>",
                      "<br><div>" \o Concat(html_raw_comment) \o "</div>">>
               ELSE <<>>
       ELSE <<>>

\* ClangUtils.build_info_details
build_info_details(cursor, function_kinds_list) ==
    LET chosen == ChooseType(cursor) IN
    IF chosen.none THEN <<>>
    ELSE LET signature == <<"<b>Definition:</b><br>">>
                             \o TypeSegment(cursor, chosen.type)
                             \o NameSegment(cursor)
                             \o ArgList(cursor, function_kinds_list)
             static == IF cursor.is_static_method
                          THEN <<"static ">> \o signature ELSE signature
             const == IF cursor.is_const_method
                         THEN Append(static, " const") ELSE static
         IN const \o BriefSection(cursor) \o RawSection(cursor)

\* types a cursor can have
TypeNone == [spelling |-> <<>>, decl |-> NoLoc, pointee_decl |-> NoLoc]

TypeInt == [spelling |-> <<"int">>, decl |-> NoLoc, pointee_decl |-> NoLoc]

TypeFoo == [spelling |-> <<"Foo">>, decl |-> LocFoo, pointee_decl |-> NoLoc]

TypeFooPtr == [spelling |-> <<"Foo", " *">>, decl |-> LocNoFile,
               pointee_decl |-> LocFoo]

TypeVec == [spelling |-> <<"vector", "<", "int", ">">>, decl |-> LocUnnamed,
            pointee_decl |-> NoLoc]

CursorTypes == {TypeNone, TypeInt, TypeFoo, TypeFooPtr, TypeVec}

ResultTypes == {TypeNone, TypeInt, TypeFooPtr}

CursorSpellings == {<<"foo">>, <<"Foo">>, <<"operator", "<">>}

CursorKinds == {"FUNCTION_DECL", "CXX_METHOD", "VAR_DECL"}

\* values of the function_kinds_list argument
FunctionKindLists == {{"FUNCTION_DECL", "CXX_METHOD"}, {"FUNCTION_DECL"}}

ArgumentSet == {[type_spelling |-> <<"int">>, spelling |-> <<"a">>],
                [type_spelling |-> <<"Foo", " &">>, spelling |-> <<>>]}

\* the longest argument list of a cursor
MaxArgs == 2

ArgumentLists == UNION {[1..n -> ArgumentSet] : n \in 0..MaxArgs}

Cursors ==
    [spelling : CursorSpellings, type : CursorTypes, result_type : ResultTypes,
     kind : CursorKinds, location : {NoLoc, LocUse},
     arguments : ArgumentLists, is_static_method : BOOLEAN,
     is_const_method : BOOLEAN, brief_comment : {"", "Does X."},
     raw_comment : {<<>>, ExampleComment}]

InfoInit ==
    /\ info_args \in [cursor : Cursors,
                      function_kinds_list : FunctionKindLists]
    /\ info_pc = "called"
    /\ info_result = <<>>
    /\ system = "Linux" /\ libclang_name = NONE /\ fs_files = {}
    /\ compiler = <<>> /\ last = NoCall
    /\ raw_comment = <<>> /\ line_idx = 0 /\ clean_lines = <<>>
    /\ prev_line = <<>> /\ is_brief_comment = FALSE /\ comment_result = <<>>

\* a call of build_info_details
BuildInfoDetails ==
    /\ info_pc = "called"
    /\ info_result' = build_info_details(info_args.cursor,
                                         info_args.function_kinds_list)
    /\ info_pc' = "returned"
    /\ UNCHANGED info_args

InfoNext == BuildInfoDetails /\ UNCHANGED <<findVars, commentVars>>

SpecInfo == InfoInit /\ [][InfoNext]_vars

(***************************************************************************)
(* Properties of build_info_details.                                       *)
(***************************************************************************)
\* the cursor of the call has a type spelling
HasTypeSpelling ==
    \/ info_args.cursor.result_type.spelling # <<>>
    \/ info_args.cursor.type.spelling # <<>>

\* the type the definition line describes
DescribedType ==
    IF info_args.cursor.result_type.spelling # <<>>
       THEN info_args.cursor.result_type ELSE info_args.cursor.type

\* the cursor's spelling differs from its type's spelling
SpellingDiffers ==
    Concat(info_args.cursor.spelling) # Concat(info_args.cursor.type.spelling)

\* position of the "Definition:" label in the result
LabelAt == IF info_args.cursor.is_static_method THEN 2 ELSE 1

\* position of the cursor's own name in the result
NameAt == LabelAt + (IF SpellingDiffers THEN 3 ELSE 1)

\* the cursor's own name as the result shows it
NameText ==
    link_from_location(info_args.cursor.location,
                       escape(info_args.cursor.spelling))

IsFunctionKind == info_args.cursor.kind \in info_args.function_kinds_list

Pieces == {info_result[i] : i \in 1..Len(info_result)}

\* the i-th string of the result, "" beyond its end
PieceAt(i) == IF i \in 1..Len(info_result) THEN info_result[i] ELSE ""

\* C10: for a cursor with a type spelling the result has the parenthesized,
\* comma-joined argument list right after the name if and only if the kind
\* is in function_kinds_list, "(" directly followed by ")" when there are no
\* arguments; and the type link followed by a space stands before the name
\* if and only if the cursor's spelling differs from its type's spelling.
C10_ArgListAndTypeSegment ==
    (info_pc = "returned" /\ HasTypeSpelling) =>
        /\ PieceAt(LabelAt) = "<b>Definition:</b><br>"
        /\ PieceAt(NameAt) = NameText
        /\ IF SpellingDiffers
              THEN /\ PieceAt(LabelAt + 1) =
                         link_from_location(
                             location_from_type(DescribedType),
                             escape(DescribedType.spelling))
                   /\ PieceAt(LabelAt + 2) = " "
              ELSE NameAt = LabelAt + 1
        /\ IF IsFunctionKind
              THEN /\ PieceAt(NameAt + 1) = "("
                   /\ IF info_args.cursor.arguments = <<>>
                         THEN PieceAt(NameAt + 2) = ")"
                         ELSE /\ PieceAt(NameAt + 2) =
                                    escape(JoinWith(<<", ">>,
                                               ArgTexts(info_args.cursor)))
                              /\ PieceAt(NameAt + 3) = ")"
              ELSE "(" \notin Pieces /\ ")" \notin Pieces

\* C10 witness: a function kind without arguments whose spelling is its
\* type's spelling, described by its result type
C10_Witness ==
    /\ info_pc = "returned"
    /\ HasTypeSpelling
    /\ IsFunctionKind
    /\ info_args.cursor.arguments = <<>>
    /\ ~SpellingDiffers
    /\ PieceAt(NameAt + 1) = "("
    /\ PieceAt(NameAt + 2) = ")"

SpecFind == FindInit /\ [][FindNext]_vars

====
